---- MODULE Spec2Model ----
(***************************************************************************)
(* Model of the resumable artifact downloader                              *)
(* (src/download_model_artifact.py): main -> download_with_resume ->       *)
(* _remote_size / _download_once.                                          *)
(*                                                                         *)
(* Bytes are small naturals.  The remote resource of length n is the       *)
(* sequence <<1, 2, ..., n>>, so that a byte value tells the offset it     *)
(* came from and a corrupt concatenation is visible; 0 is a byte that      *)
(* belongs to no resource (stale local data, junk sent by the server).     *)
(* Time is counted in tenths of a second.                                  *)
(*                                                                         *)
(* The network is the environment: each call that goes to the network      *)
(* (urlopen for the probe, urlopen for the transfer, response.read) is a   *)
(* step whose outcome is chosen nondeterministically among the outcomes    *)
(* the except clauses and status tests of the source distinguish.          *)
(***************************************************************************)
EXTENDS Integers, Sequences, FiniteSets, TLC

\* ---------------------------------------------------------------- bounds
MaxLen == 2          \* longest remote resource, in bytes
MaxRetries == 3      \* largest --retries value tried
MaxJunk == 0         \* junk bytes a server may add after the resource bytes

\* ------------------------------------------------------ program constants
\* Python's None, for the optional integers (expected_size,
\* content_range_start, the Range offset): a value no size can take.
None == -1

\* CHUNK_SIZE of the source is 1 MiB; the model reads in chunks of 2 bytes
\* so that a body of MaxLen bytes needs more than one read.
CHUNK_SIZE == 2

\* argparse values tried for --retries and --backoff-sec (tenths of a second)
RetriesArgs == (-1)..MaxRetries
BackoffArgs == {0, 15}
MinBackoff == 1      \* 0.1 s, in tenths

\* HTTP statuses: urllib returns a response for 2xx and raises HTTPError
\* for the rest.
OkStatuses == {200, 203, 206}
ErrorCodes == {404, 416}

VARIABLES
  args_retries,        \* args.retries as parsed
  retries,             \* retries as passed to download_with_resume
  backoff_sec,         \* backoff_sec as passed to download_with_resume
  resource,            \* the bytes the URL names, on the server
  out,                 \* destination file: [exists, data]
  out0,                \* the destination file before the run
  expected_size,       \* result of _remote_size, None if unknown
  pc,                  \* control point of download_with_resume
  attempt,             \* loop variable of the for loop
  current_size,        \* _download_once local
  requested_resume,    \* _download_once local
  req_range,           \* offset of the Range header sent, None if absent
  status,              \* response status
  content_range_start, \* parsed Content-Range start, None if absent
  mode,                \* "ab" or "wb"
  resp_body,           \* body the server sends for this response
  nread,               \* bytes of resp_body already read
  exc,                 \* exception being handled: [type, code]
  error,               \* RuntimeError raised to the caller: [attempts, cause]
  sleeps,              \* time.sleep arguments so far, in order
  calls,               \* number of _download_once calls so far
  requests,            \* number of transfer requests sent so far
  probes,              \* number of HEAD probes sent so far
  faithful,            \* the server has so far served the resource and
                       \* honoured every Range header
  src1,                \* merge_dirs: first source directory
  src2,                \* merge_dirs: second source directory
  dst,                 \* merge_dirs: destination directory
  overwrite_dst,       \* merge_dirs: keyword argument
  mpc,                 \* control point of merge_dirs
  todo,                \* paths of src2.rglob("*") not yet visited
  files_from_src1,     \* merge_dirs local
  files_from_src2,     \* merge_dirs local
  skipped_conflicts,   \* merge_dirs local
  merge_exc            \* exception raised by merge_dirs, "none" if none

vars == <<args_retries, retries, backoff_sec, resource, out, out0,
          expected_size, pc, attempt, current_size, requested_resume,
          req_range, status, content_range_start, mode, resp_body, nread,
          exc, error, sleeps, calls, requests, probes, faithful,
          src1, src2, dst, overwrite_dst, mpc, todo, files_from_src1,
          files_from_src2, skipped_conflicts, merge_exc>>

\* the state of the downloader and the state of merge_dirs
downloadVars == <<args_retries, retries, backoff_sec, resource, out, out0,
                  expected_size, pc, attempt, current_size, requested_resume,
                  req_range, status, content_range_start, mode, resp_body,
                  nread, exc, error, sleeps, calls, requests, probes, faithful>>
mergeVars == <<src1, src2, dst, overwrite_dst, mpc, todo, files_from_src1,
               files_from_src2, skipped_conflicts, merge_exc>>

\* ---------------------------------------------------------------- helpers
Max(a, b) == IF a >= b THEN a ELSE b
Min(a, b) == IF a <= b THEN a ELSE b

RECURSIVE Pow2(_)
Pow2(n) == IF n <= 0 THEN 1 ELSE 2 * Pow2(n - 1)

\* the resource of n bytes
Res(n) == [i \in 1..n |-> i]
\* k bytes that belong to no resource
Junk(k) == [i \in 1..k |-> 0]

NoExc == [type |-> "none", code |-> None]
NoError == [attempts |-> None, cause |-> NoExc]

\* out.stat().st_size if out.exists() else 0
StatSize(f) == IF f.exists THEN Len(f.data) ELSE 0

Absent == [exists |-> FALSE, data |-> <<>>]
File(d) == [exists |-> TRUE, data |-> d]

\* files the run may find at the destination: none, a prefix of some
\* resource (an earlier interrupted download), or stale bytes
InitFiles ==
  {Absent} \cup {File(Res(n)) : n \in 0..MaxLen}
           \cup {File(Junk(n)) : n \in 1..(MaxLen + 1)}

\* bodies a server may send for a resource r: any slice of r, possibly
\* followed by junk
Bodies(r) ==
  {SubSeq(r, s + 1, e) \o Junk(k) :
     s \in 0..Len(r), e \in 0..Len(r), k \in 0..MaxJunk}

\* Content-Range headers a response of status st may carry: a start, or
\* none.  _download_once reads the parsed start only when the status is
\* 206, so the header of the other responses is left out.
ContentRangeHeaders(st) == IF st = 206 THEN {None} \cup 0..MaxLen ELSE {None}

\* ------------------------------------------------------- pure functions
\* the clamp left out
ClampRetries_Unclamped(r) == r

\* the clamp with the wrong minimum
ClampRetries_Zero(r) == Max(0, r)

\* main: retries=max(1, args.retries)
ClampRetries(r) == Max(1, r)

\* main: backoff_sec=max(0.1, args.backoff_sec)
ClampBackoff(b) == Max(MinBackoff, b)

\* _remote_size: int(value) if value and value.isdigit() else None.
\* A header is modelled by the number it spells, None when it is missing
\* or not a string of digits.
ParseContentLength(value) == IF value # None /\ value >= 0 THEN value ELSE None

\* _parse_content_range_start: group(1) of "bytes <start>-<end>/<total>",
\* None when the header is missing or does not match.  The header is
\* modelled by its start, None when missing or malformed.
ParseContentRangeStart(value) == IF value # None /\ value >= 0 THEN value ELSE None

\* the shortcut never taken
AlreadyComplete_Never(expected, size) == FALSE

\* _download_once: the already-complete test
AlreadyComplete(expected, size) == expected # None /\ size = expected

\* the stale-file check left out
Stale_Never(expected, size) == FALSE

\* the stale-file check off by one
Stale_OffByOne(expected, size) == expected # None /\ size > expected + 1

\* _download_once: the stale-file test
Stale(expected, size) == expected # None /\ size > expected

\* a one-byte file taken for an empty one
RequestedResume_OffByOne(size) == size > 1

\* _download_once: requested_resume = current_size > 0
RequestedResume(size) == size > 0

\* every response truncates
WriteMode_AlwaysTruncate(resume, st, crs, size) == "wb"

\* the test for a full body on a resume request left out
WriteMode_NoFullBodyTest(resume, st, crs, size) ==
  IF resume /\ st = 206 /\ crs # size THEN "wb"
  ELSE IF ~resume THEN "wb"
  ELSE "ab"

\* _download_once: the write mode chosen once the response headers are in
WriteMode(resume, st, crs, size) ==
  IF resume /\ st = 200 THEN "wb"
  ELSE IF resume /\ st = 206 /\ crs # size THEN "wb"
  ELSE IF ~resume THEN "wb"
  ELSE "ab"

\* out.open(mode): "wb" truncates, "ab" keeps the bytes; both create
OpenFile(f, m) == IF m = "wb" THEN File(<<>>) ELSE File(f.data)

\* the unknown-size case left out
Completed_NoUnknownCase(expected, final_size) == final_size = expected

\* a file longer than expected taken for complete
Completed_AtLeast(expected, final_size) ==
  IF expected = None THEN final_size > 0 ELSE final_size >= expected

\* _download_once: the value returned after the transfer
Completed(expected, final_size) ==
  IF expected = None THEN final_size > 0 ELSE final_size = expected

\* exponent off by one
SleepFor_OffByOne(backoff, n) == backoff * Pow2(n)

\* download_with_resume: sleep_for = backoff_sec * (2 ** (attempt - 1))
SleepFor(backoff, n) == backoff * Pow2(n - 1)

\* the 416 test without the size comparison
AcceptOn416_AnySize(code, expected, f) == code = 416

\* download_with_resume: the 416 test of the HTTPError handler
AcceptOn416(code, expected, f) ==
  code = 416 /\ expected # None /\ f.exists /\ Len(f.data) = expected

\* gives up one attempt early
LastAttempt_Early(n, r) == n >= r - 1

\* never gives up
LastAttempt_Never(n, r) == FALSE

\* download_with_resume: if attempt == retries: raise
LastAttempt(n, r) == n = r

\* what a server that serves resource r and honours Range answers to a
\* request with Range offset rng (None: no Range header)
FaithfulResponse(r, rng, st, crs, b) ==
  \/ rng = None /\ st = 200 /\ crs = None /\ b = r
  \/ rng # None /\ rng < Len(r) /\ st = 206 /\ crs = rng
       /\ b = SubSeq(r, rng + 1, Len(r))

\* ------------------------------------------------- directories (merge)
\* Relative paths of a directory tree: two entries at the top and one
\* below the second.
Paths == {"a", "d", "d/x"}
Parent(p) == IF p = "d/x" THEN "d" ELSE "."

\* what a path holds: nothing, a directory, or a file with some content
FileContents == {"f1", "f2"}
StaleContent == "f3"

\* what tree t holds at path p; "." is the tree's own directory
Entry(t, p) == IF p = "." THEN "dir" ELSE t.ent[p]

\* p.is_file()
IsFile(t, p) == Entry(t, p) \notin {"none", "dir"}

\* a directory: [isdir, ent]; a path that is no directory has no entries
NoEntries == [p \in Paths |-> "none"]
NoDir == [isdir |-> FALSE, ent |-> NoEntries]
Dir(e) == [isdir |-> TRUE, ent |-> e]

\* an entry below a directory needs that directory
WellFormed(e) ==
  \A p \in Paths : (e[p] # "none" /\ Parent(p) # ".") => e[Parent(p)] = "dir"

SourceDirs ==
  {Dir(e) : e \in {f \in [Paths -> {"none", "dir"} \cup FileContents] : WellFormed(f)}}

\* the destination before the call: missing, or left by an earlier merge
DestDirs == {NoDir, Dir([NoEntries EXCEPT !["a"] = StaleContent])}

\* src.rglob("*"): every path below src
RGlob(t) == {p \in Paths : t.ent[p] # "none"}

\* sum(1 for p in src1.rglob("*") if p.is_file())
CountFiles(t) == Cardinality({p \in RGlob(t) : IsFile(t, p)})

\* src2 wins: the existence test left out
TargetExists_Never(t, p) == FALSE

\* target.exists(): false too when a parent of the path is a file
TargetExists(t, p) ==
  /\ t.ent[p] # "none"
  /\ Parent(p) # "." => t.ent[Parent(p)] = "dir"

\* target.mkdir(parents=True, exist_ok=True) raises FileExistsError when
\* the path or one of its parents is a file
MkdirRaises(t, p) ==
  \/ IsFile(t, p)
  \/ Parent(p) # "." /\ IsFile(t, Parent(p))

\* the tree after target.mkdir(parents=True, exist_ok=True)
Mkdir(t, p) ==
  Dir([q \in Paths |-> IF q = p \/ q = Parent(p) THEN "dir" ELSE t.ent[q]])

\* the tree after target.parent.mkdir(...) and shutil.copy2(path, target)
CopyFile(t, p, c) ==
  Dir([q \in Paths |-> IF q = p THEN c
                       ELSE IF q = Parent(p) THEN "dir" ELSE t.ent[q]])

MergeIdle ==
  /\ src1 = NoDir
  /\ src2 = NoDir
  /\ dst = NoDir
  /\ overwrite_dst = FALSE
  /\ mpc = "idle"
  /\ todo = {}
  /\ files_from_src1 = 0
  /\ files_from_src2 = 0
  /\ skipped_conflicts = 0
  /\ merge_exc = "none"

\* ------------------------------------------------------------------ Init
Init ==
  /\ MergeIdle
  /\ args_retries \in RetriesArgs
  /\ retries = ClampRetries(args_retries)
  /\ \E b \in BackoffArgs : backoff_sec = ClampBackoff(b)
  /\ resource \in {Res(n) : n \in 1..MaxLen}
  /\ out \in InitFiles
  /\ out0 = out
  /\ expected_size = None
  /\ pc = "probe"
  /\ attempt = 0
  /\ current_size = 0
  /\ requested_resume = FALSE
  /\ req_range = None
  /\ status = None
  /\ content_range_start = None
  /\ mode = "none"
  /\ resp_body = <<>>
  /\ nread = 0
  /\ exc = NoExc
  /\ error = NoError
  /\ sleeps = <<>>
  /\ calls = 0
  /\ requests = 0
  /\ probes = 0
  /\ faithful = TRUE

config == <<args_retries, retries, backoff_sec, resource, out0, mergeVars>>
attemptLocals == <<current_size, requested_resume, req_range, status,
                   content_range_start, mode, resp_body, nread>>
response == <<status, content_range_start, mode, resp_body, nread>>
history == <<sleeps, calls, requests, probes>>

\* an exception leaves _download_once: its response and its locals are gone
Unwind ==
  /\ current_size' = 0
  /\ requested_resume' = FALSE
  /\ req_range' = None
  /\ status' = None
  /\ content_range_start' = None
  /\ mode' = "none"
  /\ resp_body' = <<>>
  /\ nread' = 0

\* --------------------------------------------------------------- actions
\* the probe without its except clause: a failed probe ends the run
Probe_Fatal ==
  /\ pc = "probe"
  /\ \E value \in {None} \cup 0..(MaxLen + 1) :
       /\ expected_size' = ParseContentLength(value)
       /\ faithful' = (value = Len(resource))
       /\ pc' = IF value = None THEN "Failed"
                ELSE IF 1 <= retries THEN "attempt" ELSE "Succeeded"
  /\ probes' = probes + 1
  /\ attempt' = 1
  /\ UNCHANGED <<config, out, attemptLocals, exc, error, sleeps, calls, requests>>

\* download_with_resume, up to the for loop: _remote_size(url, headers),
\* then the first iteration of range(1, retries + 1) if there is one.
\* The HEAD answers with a Content-Length header, or fails.
Probe ==
  /\ pc = "probe"
  /\ \E value \in {None} \cup 0..(MaxLen + 1) :
       /\ expected_size' = ParseContentLength(value)
       /\ faithful' = (value = Len(resource))
  /\ probes' = probes + 1
  /\ attempt' = 1
  /\ pc' = IF 1 <= retries THEN "attempt" ELSE "Succeeded"
  /\ UNCHANGED <<config, out, attemptLocals, exc, error, sleeps, calls, requests>>

\* _download_once, the already-complete case: return True, and
\* download_with_resume returns.
AlreadyDone ==
  /\ pc = "attempt"
  /\ AlreadyComplete(expected_size, StatSize(out))
  /\ current_size' = StatSize(out)
  /\ calls' = calls + 1
  /\ pc' = "Succeeded"
  /\ UNCHANGED <<config, out, expected_size, attempt, requested_resume,
                 req_range, response, exc, error, sleeps, requests, probes,
                 faithful>>

\* _download_once up to urlopen: stat, the stale-file check, the request
\* headers; the request is sent.
SendRequest ==
  /\ pc = "attempt"
  /\ ~AlreadyComplete(expected_size, StatSize(out))
  /\ LET stale == Stale(expected_size, StatSize(out))
         size == IF stale THEN 0 ELSE StatSize(out)
     IN /\ out' = IF stale THEN Absent ELSE out
        /\ current_size' = size
        /\ requested_resume' = RequestedResume(size)
        /\ req_range' = IF RequestedResume(size) THEN size ELSE None
  /\ calls' = calls + 1
  /\ requests' = requests + 1
  /\ pc' = "request"
  /\ UNCHANGED <<config, expected_size, attempt, response, exc, error,
                 sleeps, probes, faithful>>

\* urlopen raises URLError / TimeoutError / OSError: no response
ConnectionError ==
  /\ pc = "request"
  /\ exc' = [type |-> "URLError", code |-> None]
  /\ faithful' = FALSE
  /\ pc' = "caught"
  /\ Unwind
  /\ UNCHANGED <<config, out, expected_size, attempt, error, history>>

\* urlopen raises HTTPError: the status is not 2xx
HttpError ==
  /\ pc = "request"
  /\ \E code \in ErrorCodes :
       /\ exc' = [type |-> "HTTPError", code |-> code]
       /\ faithful' = (faithful /\ code = 416 /\ req_range # None
                         /\ req_range >= Len(resource))
  /\ pc' = "caught"
  /\ Unwind
  /\ UNCHANGED <<config, out, expected_size, attempt, error, history>>

\* urlopen returns a response: status and Content-Range are read, the
\* write mode is chosen and the destination is opened in that mode.
OpenResponse ==
  /\ pc = "request"
  /\ \E st \in OkStatuses, b \in Bodies(resource) :
     \E hdr \in ContentRangeHeaders(st) :
       LET crs == ParseContentRangeStart(hdr)
           m == WriteMode(requested_resume, st, crs, current_size)
       IN /\ status' = st
          /\ content_range_start' = crs
          /\ mode' = m
          /\ resp_body' = b
          /\ out' = OpenFile(out, m)
          /\ faithful' = (faithful /\ FaithfulResponse(resource, req_range, st, crs, b))
  /\ nread' = 0
  /\ pc' = "stream"
  /\ UNCHANGED <<config, expected_size, attempt, current_size,
                 requested_resume, req_range, exc, error, history>>

\* chunk = response.read(CHUNK_SIZE); fp.write(chunk), chunk not empty
ReadChunk ==
  /\ pc = "stream"
  /\ nread < Len(resp_body)
  /\ \E n \in 1..Min(CHUNK_SIZE, Len(resp_body) - nread) :
       /\ out' = File(out.data \o SubSeq(resp_body, nread + 1, nread + n))
       /\ nread' = nread + n
  /\ UNCHANGED <<config, expected_size, pc, attempt, current_size,
                 requested_resume, req_range, status, content_range_start,
                 mode, resp_body, exc, error, history, faithful>>

\* response.read or fp.write raises OSError: the file is closed with the
\* chunks written so far
ReadError ==
  /\ pc = "stream"
  /\ nread < Len(resp_body)
  /\ exc' = [type |-> "OSError", code |-> None]
  /\ faithful' = FALSE
  /\ pc' = "caught"
  /\ Unwind
  /\ UNCHANGED <<config, out, expected_size, attempt, error, history>>

\* the read returns no data: the loop ends, the file is closed and its
\* final size decides between return True and "download incomplete"
ReadEnd ==
  /\ pc = "stream"
  /\ nread = Len(resp_body)
  /\ IF Completed(expected_size, StatSize(out))
       THEN /\ pc' = "Succeeded"
            /\ exc' = exc
            /\ UNCHANGED attemptLocals
       ELSE /\ pc' = "caught"
            /\ exc' = [type |-> "RuntimeError", code |-> None]
            /\ Unwind
  /\ UNCHANGED <<config, out, expected_size, attempt, error, history,
                 faithful>>

\* an HTTP error never retried
ExceptHTTPError_Fatal ==
  /\ pc = "caught"
  /\ exc.type = "HTTPError"
  /\ IF AcceptOn416(exc.code, expected_size, out)
       THEN pc' = "Succeeded" /\ error' = error
       ELSE pc' = "Failed" /\ error' = [attempts |-> retries, cause |-> exc]
  /\ UNCHANGED <<config, out, expected_size, attempt, attemptLocals, exc,
                 history, faithful>>

\* except urllib.error.HTTPError
ExceptHTTPError ==
  /\ pc = "caught"
  /\ exc.type = "HTTPError"
  /\ IF AcceptOn416(exc.code, expected_size, out)
       THEN pc' = "Succeeded" /\ error' = error
       ELSE IF LastAttempt(attempt, retries)
         THEN pc' = "Failed" /\ error' = [attempts |-> retries, cause |-> exc]
         ELSE pc' = "sleep" /\ error' = error
  /\ UNCHANGED <<config, out, expected_size, attempt, attemptLocals, exc,
                 history, faithful>>

\* the handler removing the partial file when it gives up
ExceptOther_Cleanup ==
  /\ pc = "caught"
  /\ exc.type \in {"URLError", "OSError", "RuntimeError"}
  /\ IF LastAttempt(attempt, retries)
       THEN /\ pc' = "Failed"
            /\ error' = [attempts |-> retries, cause |-> exc]
            /\ out' = Absent
       ELSE /\ pc' = "sleep"
            /\ error' = error
            /\ out' = out
  /\ UNCHANGED <<config, expected_size, attempt, attemptLocals, exc,
                 history, faithful>>

\* except (urllib.error.URLError, TimeoutError, OSError, RuntimeError)
ExceptOther ==
  /\ pc = "caught"
  /\ exc.type \in {"URLError", "OSError", "RuntimeError"}
  /\ IF LastAttempt(attempt, retries)
       THEN pc' = "Failed" /\ error' = [attempts |-> retries, cause |-> exc]
       ELSE pc' = "sleep" /\ error' = error
  /\ UNCHANGED <<config, out, expected_size, attempt, attemptLocals, exc,
                 history, faithful>>

\* time.sleep(sleep_for), then the next iteration of the for loop
Sleep ==
  /\ pc = "sleep"
  /\ sleeps' = Append(sleeps, SleepFor(backoff_sec, attempt))
  /\ attempt' = attempt + 1
  /\ pc' = IF attempt + 1 <= retries THEN "attempt" ELSE "Succeeded"
  /\ UNCHANGED <<config, out, expected_size, attemptLocals, exc, error,
                 calls, requests, probes, faithful>>

Next ==
  \/ Probe
  \/ AlreadyDone
  \/ SendRequest
  \/ ConnectionError
  \/ HttpError
  \/ OpenResponse
  \/ ReadChunk
  \/ ReadError
  \/ ReadEnd
  \/ ExceptHTTPError
  \/ ExceptOther
  \/ Sleep

Spec == Init /\ [][Next]_vars

\* the run ends: every step that is enabled is eventually taken
FairSpec == Spec /\ WF_vars(Next)

\* The runs with the smallest --backoff-sec, started with no file, with a
\* one-byte file or with the longest stale file: the sleep lengths and
\* the other files change no control flow.  Python runs the interpreter
\* until the call returns or raises and every network call has a
\* timeout, so a step that can be taken is taken.
InitRun ==
  /\ Init
  /\ backoff_sec = MinBackoff
  /\ out \in {Absent, File(Res(1)), File(Junk(MaxLen + 1))}

FairRun == InitRun /\ [][Next]_vars /\ WF_vars(Next)

\* The destination is a path of the file system: _download_once reads its
\* size before the request and the HTTPError handler reads it again.
\* While the request is in flight another process (a second instance of
\* the downloader, say) may leave any file there.
ExternalWrite ==
  /\ pc = "request"
  /\ out' \in InitFiles \ {out}
  /\ UNCHANGED <<config, expected_size, pc, attempt, attemptLocals, exc,
                 error, history, faithful>>

NextShared == Next \/ ExternalWrite

\* the run without the exclusive ownership of the destination; what the
\* run found at the start matters little once another process writes
SpecShared == InitRun /\ [][NextShared]_vars

\* ------------------------------------------------------------ merge_dirs
\* the downloader is not running
DownloadIdle ==
  /\ args_retries = 1
  /\ retries = 1
  /\ backoff_sec = MinBackoff
  /\ resource = <<>>
  /\ out = Absent
  /\ out0 = Absent
  /\ expected_size = None
  /\ pc = "idle"
  /\ attempt = 0
  /\ current_size = 0
  /\ requested_resume = FALSE
  /\ req_range = None
  /\ status = None
  /\ content_range_start = None
  /\ mode = "none"
  /\ resp_body = <<>>
  /\ nread = 0
  /\ exc = NoExc
  /\ error = NoError
  /\ sleeps = <<>>
  /\ calls = 0
  /\ requests = 0
  /\ probes = 0
  /\ faithful = TRUE

\* a call merge_dirs(src1, src2, dst, overwrite_dst=...)
InitMerge ==
  /\ DownloadIdle
  /\ src1 \in SourceDirs \cup {NoDir}
  /\ src2 \in SourceDirs \cup {NoDir}
  /\ dst \in DestDirs
  /\ overwrite_dst \in BOOLEAN
  /\ mpc = "start"
  /\ todo = {}
  /\ files_from_src1 = 0
  /\ files_from_src2 = 0
  /\ skipped_conflicts = 0
  /\ merge_exc = "none"

\* merge_dirs up to the for loop: the checks of the arguments,
\* shutil.rmtree(dst), shutil.copytree(src1, dst), the count of src1
MergeStart ==
  /\ mpc = "start"
  /\ IF ~src1.isdir \/ ~src2.isdir
       THEN /\ mpc' = "raised"
            /\ merge_exc' = "FileNotFoundError"
            /\ UNCHANGED <<dst, todo, files_from_src1>>
       ELSE IF dst.isdir /\ ~overwrite_dst
         THEN /\ mpc' = "raised"
              /\ merge_exc' = "FileExistsError"
              /\ UNCHANGED <<dst, todo, files_from_src1>>
         ELSE /\ dst' = src1
              /\ files_from_src1' = CountFiles(src1)
              /\ todo' = RGlob(src2)
              /\ mpc' = "loop"
              /\ merge_exc' = merge_exc
  /\ UNCHANGED <<src1, src2, overwrite_dst, files_from_src2,
                 skipped_conflicts, downloadVars>>

\* one iteration of `for path in src2.rglob("*")`; rglob yields a
\* directory before the paths below it
MergeVisit ==
  /\ mpc = "loop"
  /\ \E path \in todo :
       /\ Parent(path) \notin todo
       /\ todo' = todo \ {path}
       /\ IF src2.ent[path] = "dir"
            THEN IF MkdirRaises(dst, path)
                   THEN /\ mpc' = "raised"
                        /\ merge_exc' = "FileExistsError"
                        /\ UNCHANGED <<dst, files_from_src2, skipped_conflicts>>
                   ELSE /\ dst' = Mkdir(dst, path)
                        /\ UNCHANGED <<mpc, merge_exc, files_from_src2,
                                       skipped_conflicts>>
            ELSE IF TargetExists(dst, path)
                   THEN /\ skipped_conflicts' = skipped_conflicts + 1
                        /\ UNCHANGED <<dst, mpc, merge_exc, files_from_src2>>
                   ELSE IF MkdirRaises(dst, Parent(path))
                     THEN /\ mpc' = "raised"
                          /\ merge_exc' = "FileExistsError"
                          /\ UNCHANGED <<dst, files_from_src2, skipped_conflicts>>
                     ELSE /\ dst' = CopyFile(dst, path, src2.ent[path])
                          /\ files_from_src2' = files_from_src2 + 1
                          /\ UNCHANGED <<mpc, merge_exc, skipped_conflicts>>
  /\ UNCHANGED <<src1, src2, overwrite_dst, files_from_src1, downloadVars>>

\* the loop is over: return files_from_src1, files_from_src2, skipped_conflicts
MergeReturn ==
  /\ mpc = "loop"
  /\ todo = {}
  /\ mpc' = "returned"
  /\ UNCHANGED <<src1, src2, dst, overwrite_dst, todo, files_from_src1,
                 files_from_src2, skipped_conflicts, merge_exc, downloadVars>>

NextMerge ==
  \/ MergeStart
  \/ MergeVisit
  \/ MergeReturn

SpecMerge == InitMerge /\ [][NextMerge]_vars

TypeOK ==
  /\ pc \in {"probe", "attempt", "request", "stream", "caught", "sleep",
             "Succeeded", "Failed", "idle"}
  /\ retries \in 1..MaxRetries
  /\ attempt \in 0..retries
  /\ expected_size \in {None} \cup 0..(MaxLen + 1)
  /\ mode \in {"none", "ab", "wb"}
  /\ nread \in 0..Len(resp_body)

\* ===================================================== properties

Known == expected_size # None
Terminal == pc \in {"Succeeded", "Failed"}

\* p is a prefix of s
IsPrefix(p, s) == Len(p) <= Len(s) /\ \A i \in 1..Len(p) : p[i] = s[i]

\* the destination held a prefix of the resource when the run began
PrefixAtStart == IsPrefix(out0.data, resource)

\* ---------------------------------------------------------------- C1
\* C1: against a server that serves the resource and honours Range, a run
\* that starts from any prefix of the resource (length 0..E, E the probed
\* size) never fails, never retries, and when it returns the destination
\* holds exactly the resource: the bytes a download from an empty file
\* (the case of length 0) produces.
C1_ResumeEqualsFresh ==
  (faithful /\ PrefixAtStart /\ pc # "probe") =>
     /\ expected_size = Len(resource)
     /\ pc \in {"attempt", "request", "stream", "Succeeded"}
     /\ attempt = 1
     /\ sleeps = <<>>
     /\ pc = "stream" => IsPrefix(out.data, resource)
     /\ pc = "Succeeded" => out = File(resource)

C1_Witness ==
  /\ pc = "Succeeded" /\ faithful /\ PrefixAtStart
  /\ out0.exists /\ 0 < StatSize(out0) /\ StatSize(out0) < Len(resource)
  /\ req_range = StatSize(out0) /\ mode = "ab"
  /\ out = File(resource)

\* ---------------------------------------------------------------- C2
\* C2: the destination is opened in append mode only for a resume request
\* answered by 206 with a Content-Range start equal to the offset asked
\* for; every other response to a resume request is written in "wb" mode.
C2_AppendOnlyOnMatchingPartial ==
  (pc \in {"stream", "Succeeded"} /\ mode # "none") =>
     /\ mode = "ab" =>
          (requested_resume /\ status = 206 /\ content_range_start = current_size)
     /\ (requested_resume /\ ~(status = 206 /\ content_range_start = current_size))
          => mode = "wb"

\* ---------------------------------------------------------------- C3
\* C3: a resume request (0 < L < E) answered by status 200 with the whole
\* E-byte resource truncates the destination: while the body is read the
\* file is the part of the resource read so far, never the old L bytes
\* followed by new ones, and when the body ends the attempt returns True
\* with the file equal to the resource.
FullBodyOnResume ==
  /\ pc = "stream" /\ requested_resume /\ status = 200
  /\ resp_body = resource /\ expected_size = Len(resource)

C3_FullBodyTruncates ==
  /\ [](FullBodyOnResume =>
          /\ 0 < current_size /\ current_size < expected_size
          /\ out = File(SubSeq(resource, 1, nread)))
  /\ [][(FullBodyOnResume /\ nread = Len(resp_body))
          => (pc' = "Succeeded" /\ out' = File(resource))]_vars

C3_Witness ==
  /\ pc = "Succeeded" /\ requested_resume /\ status = 200
  /\ resp_body = resource /\ expected_size = Len(resource)
  /\ current_size > 0 /\ mode = "wb" /\ out = File(resource)

\* ---------------------------------------------------------------- C4
\* C4: when the probed size is known and the destination already has that
\* length, the run can only return from its first call of _download_once:
\* no transfer request, no sleep, the file untouched; one probe was sent.
C4_AlreadyCompleteIsFree ==
  (pc # "probe" /\ Known /\ StatSize(out0) = expected_size) =>
     /\ pc \in {"attempt", "Succeeded"}
     /\ pc = "attempt" => (ENABLED AlreadyDone /\ ~ENABLED SendRequest)
     /\ attempt = 1
     /\ calls = (IF pc = "Succeeded" THEN 1 ELSE 0)
     /\ requests = 0
     /\ probes = 1
     /\ sleeps = <<>>
     /\ out = out0

C4_Witness ==
  /\ pc = "Succeeded" /\ Known /\ out0.exists
  /\ StatSize(out0) = expected_size /\ expected_size > 0
  /\ calls = 1 /\ requests = 0 /\ out = out0

\* ---------------------------------------------------------------- C5
\* C5: an attempt that finds the destination longer than the known size
\* deletes it, takes 0 as the current size and sends a request without a
\* Range header.
StaleAtAttempt == pc = "attempt" /\ Known /\ StatSize(out) > expected_size

C5_StaleFileDeleted ==
  [][StaleAtAttempt =>
       /\ pc' = "request"
       /\ out' = Absent
       /\ current_size' = 0
       /\ ~requested_resume'
       /\ req_range' = None
       /\ requests' = requests + 1]_vars

C5_Witness ==
  /\ pc = "request" /\ Known /\ calls = 1
  /\ out0.exists /\ StatSize(out0) > expected_size
  /\ ~out.exists /\ current_size = 0 /\ req_range = None

\* ---------------------------------------------------------------- C6
\* C6: a run that returns at its k-th attempt made exactly k calls of
\* _download_once (k <= retries) and slept k-1 times, the first sleep
\* being backoff_sec and each later one twice the one before; sleep i
\* lies between call i and call i+1.
C6_BackoffSchedule ==
  /\ \A i \in 1..Len(sleeps) :
       sleeps[i] = (IF i = 1 THEN backoff_sec ELSE 2 * sleeps[i - 1])
  /\ pc \in {"request", "stream", "caught", "sleep"} => Len(sleeps) = calls - 1
  /\ pc = "attempt" => Len(sleeps) = calls
  /\ pc = "Succeeded" =>
       /\ calls = attempt
       /\ calls \in 1..retries
       /\ Len(sleeps) = calls - 1

C6_Witness ==
  /\ pc = "Succeeded" /\ retries = 3 /\ calls = 3
  /\ backoff_sec = 15 /\ sleeps = <<15, 30>>

\* ---------------------------------------------------------------- C7
\* C7: a run that raises made exactly `retries` calls of _download_once
\* and slept retries-1 times, none after the last call; the error names
\* `retries` attempts and wraps the exception of the last attempt.
C7_ExhaustedBudget ==
  pc = "Failed" =>
     /\ calls = retries
     /\ attempt = retries
     /\ Len(sleeps) = retries - 1
     /\ error.attempts = retries
     /\ error.cause = exc
     /\ exc.type \in {"HTTPError", "URLError", "OSError", "RuntimeError"}
     /\ ~ENABLED Next

C7_Witness ==
  /\ pc = "Failed" /\ retries = 1 /\ calls = 1 /\ sleeps = <<>>
  /\ error.attempts = 1 /\ error.cause.type = "URLError"

\* ---------------------------------------------------------------- C8
\* C8: whenever the run returns normally the destination meets the
\* completion policy: its length is the probed size when that is known,
\* and it exists and is not empty when it is not; whatever --retries was.
C8_SuccessMeansComplete ==
  pc = "Succeeded" =>
     /\ Known => StatSize(out) = expected_size
     /\ ~Known => (out.exists /\ Len(out.data) > 0)

C8_Witness ==
  /\ pc = "Succeeded" /\ args_retries = 0 /\ ~Known
  /\ ~out0.exists /\ out.exists /\ Len(out.data) > 0

\* ---------------------------------------------------------------- C9
\* C9 as stated: with an unknown size, a run that ends with a non-empty
\* destination has ended in success.
C9_Original ==
  (Terminal /\ ~Known /\ StatSize(out) > 0) => pc = "Succeeded"

\* C9, amended: with an unknown size, an attempt whose body is read to
\* its end with a non-empty destination returns True, whatever the byte
\* count, and the run succeeds.
C9_NonEmptyTransferSucceeds ==
  [][(pc = "stream" /\ nread = Len(resp_body) /\ ~Known /\ StatSize(out) > 0)
       => pc' = "Succeeded"]_vars

C9_Witness ==
  /\ pc = "Succeeded" /\ ~Known /\ calls >= 1 /\ requests >= 1
  /\ StatSize(out) > 0 /\ StatSize(out) # Len(resource)

\* ---------------------------------------------------------------- C10
\* C10 as stated: with a known size the destination is never longer than
\* that size.
C10_Original == Known => StatSize(out) <= expected_size

\* C10, amended: with a known size, the destination is no longer than
\* that size whenever an attempt has made its size check and sent its
\* request; it can be longer only before an attempt's check, while or
\* after a body is written, and it never is when the run returns.
C10_BoundedAtRequest ==
  Known =>
     /\ pc = "request" => StatSize(out) <= expected_size
     /\ StatSize(out) > expected_size =>
          pc \in {"attempt", "stream", "caught", "sleep", "Failed"}

C10_Witness ==
  /\ pc = "request" /\ Known /\ calls = 2
  /\ StatSize(out0) <= expected_size
  /\ ~out.exists

\* ---------------------------------------------------------------- C11
\* C11 as stated: a 416 caught while the size is known and the local
\* length (0 for a missing file) equals it is never handled as a failed
\* attempt.
C11_Original ==
  (pc \in {"sleep", "Failed"} /\ exc.type = "HTTPError" /\ exc.code = 416
     /\ Known) => StatSize(out) # expected_size

\* C11, amended: when an HTTP error is caught, the run returns at once,
\* with no sleep, no further call and no error, if the code is 416, the
\* size is known and the destination exists with exactly that length;
\* in every other case the error is a failed attempt: the run raises if
\* the attempt was the last one and goes to sleep otherwise.
C11_RangeNotSatisfiable ==
  [][(pc = "caught" /\ exc.type = "HTTPError") =>
       IF exc.code = 416 /\ Known /\ out.exists /\ Len(out.data) = expected_size
         THEN /\ pc' = "Succeeded"
              /\ UNCHANGED <<out, sleeps, calls, requests, attempt>>
              /\ error' = NoError
         ELSE pc' = (IF attempt = retries THEN "Failed" ELSE "sleep")]_vars

C11_Witness ==
  /\ pc = "Succeeded" /\ exc.type = "HTTPError" /\ exc.code = 416
  /\ mode = "none" /\ requests = calls /\ sleeps = <<>>
  /\ Known /\ expected_size > 0 /\ out.exists /\ Len(out.data) = expected_size

\* ---------------------------------------------------------------- C12
\* C12: whatever --retries and --backoff-sec were, zero and negative
\* values included, the loop runs with retries >= 1 (the value given when
\* that is at least 1, else 1) and backoff_sec >= 0.1 s, and a run never
\* ends without a call of _download_once.
C12_AtLeastOneAttempt ==
  /\ retries >= 1
  /\ retries = (IF args_retries >= 1 THEN args_retries ELSE 1)
  /\ backoff_sec >= MinBackoff
  /\ pc \notin {"probe", "attempt"} => calls >= 1
  /\ Terminal => calls >= 1

C12_Witness ==
  /\ pc = "Failed" /\ args_retries < 0 /\ retries = 1 /\ calls = 1

\* ---------------------------------------------------------------- C13
\* C13 as stated: after an attempt that failed with a connection, HTTP
\* or I/O error, the next attempt that sends a request leaves the file
\* as it was and asks for the range that starts at its length.
C13_Original ==
  [][(pc = "attempt" /\ calls >= 1 /\ pc' = "request"
        /\ exc.type \in {"URLError", "HTTPError", "OSError"})
       => (out' = out /\ (StatSize(out) > 0 => req_range' = StatSize(out)))]_vars

\* C13, amended: the step that raises, the handler and the sleep leave
\* the destination as it is, so a failure before the response leaves the
\* file as the attempt's stale-file check left it, a failure while the
\* body is read leaves every chunk written so far, and nothing is
\* deleted when the run gives up.  The next attempt that sends a request
\* resumes at the length of that file, unless the size is known and the
\* file is longer: then it deletes the file and sends no Range header.
C13_FailureKeepsBytes ==
  /\ [](pc = "stream" =>
          /\ out.exists
          /\ Len(out.data) = (IF mode = "ab" THEN current_size ELSE 0) + nread
          /\ \A i \in 1..nread :
               out.data[Len(out.data) - nread + i] = resp_body[i])
  /\ [][(pc' = "caught" \/ pc \in {"caught", "sleep"}) => out' = out]_vars
  /\ [][(pc = "attempt" /\ pc' = "request") =>
          IF Known /\ StatSize(out) > expected_size
            THEN out' = Absent /\ req_range' = None
            ELSE /\ out' = out
                 /\ req_range' = (IF StatSize(out) > 0 THEN StatSize(out) ELSE None)]_vars

C13_Witness ==
  /\ pc = "Failed" /\ retries = 2 /\ calls = 2
  /\ exc.type = "OSError"
  /\ out.exists /\ Len(out.data) = 2 /\ StatSize(out0) = 0
  /\ sleeps = <<backoff_sec>>

\* ---------------------------------------------------------------- C14
\* what holds of every merge that returns: src1's files are in dst with
\* src1's content, dst has no file that neither source has, and the
\* counts add up
MergeFrame ==
  /\ dst.isdir
  /\ \A p \in Paths : IsFile(src1, p) => dst.ent[p] = src1.ent[p]
  /\ \A p \in Paths : IsFile(dst, p) => (IsFile(src1, p) \/ IsFile(src2, p))
  /\ files_from_src1 = Cardinality({p \in Paths : IsFile(src1, p)})
  /\ files_from_src2 + skipped_conflicts
       = Cardinality({p \in Paths : IsFile(src2, p)})

C15_Terminates ==
  /\ <>Terminal
  /\ [](calls <= retries /\ Len(sleeps) <= retries - 1)
  /\ [](Terminal => ~ENABLED Next)
  /\ [](~Terminal => ENABLED Next)

C15_Witness ==
  /\ pc = "Failed" /\ retries = MaxRetries /\ calls = retries
  /\ Len(sleeps) = retries - 1

\* ---------------------------------------------------------------- C16
\* C16: the probe is sent exactly once, before the first call of
\* _download_once and never later; whatever it returns, the run goes on
\* to the first attempt with the file untouched; the size it returned is
\* the size every attempt uses; a run never fails without an attempt.
C16_ProbeOnce ==
  /\ [](probes = (IF pc = "probe" THEN 0 ELSE 1))
  /\ [](pc = "probe" => (calls = 0 /\ requests = 0 /\ ENABLED Probe))
  /\ [][pc = "probe" => (pc' = "attempt" /\ attempt' = 1 /\ out' = out)]_vars
  /\ [][pc # "probe" => (expected_size' = expected_size /\ pc' # "probe")]_vars
  /\ [](pc = "Failed" => (calls >= 1 /\ error.cause.type # "none"))

C16_Witness ==
  /\ pc = "request" /\ attempt = 2 /\ calls = 2 /\ probes = 1 /\ ~Known

\* ---------------------------------------------------------------- C17
\* the attempt before this one ended with "download incomplete"
AfterIncomplete ==
  pc = "attempt" /\ calls >= 1 /\ exc.type = "RuntimeError" /\ Known

\* C17 as stated: the attempt after an incomplete one starts from the
\* file length the incomplete attempt left.
C17_Original ==
  [][(AfterIncomplete /\ pc' = "request") => current_size' = StatSize(out)]_vars

\* C17, amended: with a known size, a transfer that ends normally with a
\* file of another length raises "download incomplete" and is never a
\* success; the handler raises if the attempt was the last one and
\* otherwise the run sleeps once and calls _download_once again with the
\* file untouched; that attempt starts from the length left, or from
\* zero, the file deleted, when that length is greater than the size.
C17_IncompleteIsRetried ==
  /\ [][(pc = "stream" /\ nread = Len(resp_body) /\ Known
           /\ StatSize(out) # expected_size)
          => (pc' = "caught" /\ exc'.type = "RuntimeError" /\ out' = out)]_vars
  /\ [][(pc = "caught" /\ exc.type = "RuntimeError")
          => /\ pc' = (IF attempt < retries THEN "sleep" ELSE "Failed")
             /\ out' = out]_vars
  /\ [][pc = "sleep"
          => /\ pc' = "attempt" /\ attempt' = attempt + 1
             /\ Len(sleeps') = Len(sleeps) + 1
             /\ out' = out]_vars
  /\ [][AfterIncomplete
          => /\ pc' = "request"
             /\ current_size' = (IF StatSize(out) > expected_size
                                   THEN 0 ELSE StatSize(out))
             /\ out' = (IF StatSize(out) > expected_size THEN Absent ELSE out)]_vars

C17_Witness ==
  /\ pc = "request" /\ calls = 2 /\ exc.type = "RuntimeError" /\ Known
  /\ out.exists /\ req_range = Len(out.data) /\ req_range > 0
  /\ StatSize(out0) = 0

\* ---------------------------------------------------------------- C18
\* C18: a request carries a Range header exactly when the local length,
\* taken as 0 for a stale file, is positive, and the header then names
\* that length, which is the length of the file when the request is sent.
C18_RangeHeader ==
  /\ [](pc = "request" =>
          /\ (req_range # None) <=> (StatSize(out) > 0)
          /\ req_range # None => req_range = StatSize(out)
          /\ requested_resume <=> (req_range # None)
          /\ current_size = StatSize(out))
  /\ [][(pc = "attempt" /\ pc' = "request") =>
          LET L == IF Known /\ StatSize(out) > expected_size
                     THEN 0 ELSE StatSize(out)
          IN req_range' = (IF L > 0 THEN L ELSE None)]_vars

C18_Witness ==
  /\ pc = "request" /\ calls = 1 /\ out = File(<<1, 2>>) /\ req_range = 2

\* ---------------------------------------------------------------- C19
\* an HTTP error has been raised and is about to be handled
HttpErrorCaught == pc = "caught" /\ exc.type = "HTTPError"

\* C19 as stated: with the destination owned by the run, no request is
\* in flight and no HTTP error is caught while the size is known and
\* the local length (0 for a missing file) equals it.
C19_Original ==
  ((pc = "request" \/ HttpErrorCaught) /\ Known)
     => StatSize(out) # expected_size

\* C19, amended: with the destination owned by the run, no request is
\* in flight and no HTTP error is caught while the size is known and the
\* destination exists with that length; the local length equals a known
\* size at such a moment only when that size is 0 and the file is
\* missing, after a fresh request.  The handler of HTTPError therefore
\* never returns: it raises or goes on to the sleep.
C19_BranchNeverTaken ==
  /\ []((Known /\ (pc = "request" \/ HttpErrorCaught)) =>
          /\ ~(out.exists /\ Len(out.data) = expected_size)
          /\ StatSize(out) = expected_size => (expected_size = 0 /\ ~out.exists))
  /\ []((Known /\ pc = "request" /\ StatSize(out) = expected_size)
          => req_range = None)
  /\ [][HttpErrorCaught => pc' \in {"sleep", "Failed"}]_vars

C19_Witness ==
  /\ pc = "Failed" /\ exc.type = "HTTPError" /\ exc.code = 416
  /\ Known /\ out.exists /\ Len(out.data) > 0 /\ out = out0

\* ---------------------------------------------------------------- C20
\* C20: a caught HTTP error, whatever its code, is handled as a caught
\* network error is: the run raises, naming `retries` attempts and the
\* error, only if the attempt was the last one; otherwise it sleeps
\* backoff_sec * 2^(attempt-1) and starts the next attempt.
C20_HttpErrorIsTransient ==
  /\ [][pc = "caught" =>
          /\ pc' = (IF attempt = retries THEN "Failed" ELSE "sleep")
          /\ pc' = "Failed" => error' = [attempts |-> retries, cause |-> exc]
          /\ UNCHANGED <<out, attempt, sleeps>>]_vars
  /\ [][(pc = "sleep" /\ exc.type = "HTTPError") =>
          /\ sleeps' = Append(sleeps, backoff_sec * 2^(attempt - 1))
          /\ attempt' = attempt + 1
          /\ pc' = "attempt"]_vars

C20_Witness ==
  /\ pc = "request" /\ calls = 2 /\ attempt = 2
  /\ exc = [type |-> "HTTPError", code |-> 404]
  /\ sleeps = <<backoff_sec>>

====
